---- MODULE Spec2Model ----
(***************************************************************************)
(* Grades microservice: the gRPC service layer (server/server.go) on top   *)
(* of the bun/PostgreSQL data-access layer (server/db.go).                 *)
(*                                                                         *)
(* The grades table is a set of Grade rows.  Every DAL method of Database  *)
(* is an operator from the table (and the request) to the table after the  *)
(* statement, the value returned and the error returned.  Every RPC of     *)
(* GradesServer is one action that runs VerifyToken, the DAL method and    *)
(* the mapping to the wire response; it leaves the answer in `call` until  *)
(* Return delivers it, so calls are answered one after the other.          *)
(*                                                                         *)
(* Library behaviour the code relies on (github.com/uptrace/bun):          *)
(*  - a field tagged `default:...` is null-zero: on INSERT a zero value is *)
(*    sent as DEFAULT and the stored value is scanned back (RETURNING);    *)
(*  - Scan of a single-row SELECT with no row returns sql.ErrNoRows;       *)
(*  - UPDATE ... WherePK() writes every column of the model;               *)
(*  - an UPDATE or DELETE with no Where clause is refused before it is     *)
(*    sent ("bun: Update and Delete queries require at least one Where").  *)
(*                                                                         *)
(* Specifications: Spec answers calls one after the other; GoSpec serves   *)
(* them on concurrent goroutines, statement by statement; BothSpec makes   *)
(* the same data-access calls on Database and on MockDatabase              *)
(* (server/db_test.go); MockSpec runs MockDatabase on concurrent           *)
(* goroutines under its RWMutex.                                           *)
(***************************************************************************)
EXTENDS Naturals, Sequences, FiniteSets, TLC

VARIABLES
    rows,      \* the grades table: a set of Grade rows
    now,       \* current_timestamp of the store
    uuids,     \* how many times uuid_generate_v4() has been evaluated
    Claims,    \* GradesServer.Claims, "nil" unless injected
    call,      \* the call being answered: request, status, response
    issued,    \* history: the grade_ids successful creates have returned
    threads,   \* the calls in progress when calls are served concurrently
    mockGrades, \* MockDatabase.grades: the Grade values the map points to
    mutex      \* MockDatabase.mutex: its writer and its readers

vars == <<rows, now, uuids, Claims, call, issued, threads, mockGrades, mutex>>

----------------------------------------------------------------------------
(* Bounds and input sets *)

\* Committed write statements per behaviour; the store clock ticks once per
\* committed write, so this also bounds the clock and the generated ids.
MaxClock == 3

\* Calls served at the same time, one goroutine each.
MaxGoroutines == 2
Goroutines == 1..MaxGoroutines

NilClaims == "nil"
NoCall == [op |-> "none"]
Idle == call.op = "none"

\* A goroutine that serves no call.
NoThread == [at |-> "idle", op |-> "none"]

\* The zero sync.RWMutex: no writer (goroutines are numbered from 1) and no
\* readers.
NoGoroutine == 0
Unlocked == [writer |-> NoGoroutine, readers |-> {}]

\* uuid_generate_v4(): the n-th generated identifier.
Uuid(n) == "uuid-" \o ToString(n)

\* Tokens a caller may send: one the authentication collaborator accepts,
\* one it rejects, and a missing token.
ValidTokens == {"test-token"}
Tokens == {"test-token", "bad-token", ""}

StudentIDs == {"", "s1", "s2"}
CourseIDs == {"", "MATH101", "PHYS101"}
Semesters == {"", "2025A", "2025B"}

\* Grade identifiers a caller may send: none, every identifier the store may
\* have generated, and one the store never generates.
GradeIDs == {""} \cup {Uuid(n) : n \in 1..MaxClock} \cup {"uuid-x"}

----------------------------------------------------------------------------
(* Errors *)

NoErr == "nil"
ErrGradeNil == "grade is nil"
ErrStudentIDEmpty == "student ID is empty"
ErrCourseIDEmpty == "course ID is empty"
ErrGradeIDEmpty == "grade ID is empty"
ErrNoRows == "sql: no rows in result set"
ErrNoWhere == "bun: Update and Delete queries require at least one Where"
ErrInvalidToken == "failed to verify token"

----------------------------------------------------------------------------
(* Messages and rows *)

\* gpb.SingleGrade; isNil marks the nil message, whose getters return "".
SingleGrade(id, st, co, se, ty, it, va, by, cm) ==
    [isNil |-> FALSE, GradeID |-> id, StudentID |-> st, CourseID |-> co,
     Semester |-> se, GradeType |-> ty, ItemID |-> it, GradeValue |-> va,
     GradedBy |-> by, Comments |-> cm]

NilGrade ==
    [isNil |-> TRUE, GradeID |-> "", StudentID |-> "", CourseID |-> "",
     Semester |-> "", GradeType |-> "", ItemID |-> "", GradeValue |-> "",
     GradedBy |-> "", Comments |-> ""]

\* The zero time.Time.
ZeroTime == 0

\* The string columns of Grade that UpdateGrade may overwrite.
StringFields ==
    {"StudentID", "CourseID", "Semester", "GradeType", "ItemID",
     "GradeValue", "GradedBy", "Comments"}

\* Requests of AddSingleGrade: complete grades for several students, courses
\* and semesters, with and without a caller-chosen grade_id, grades with an
\* empty student_id or course_id, and the nil grade.
AddKeys ==
    {<<"s1", "MATH101", "2025A">>, <<"s2", "MATH101", "2025A">>,
     <<"s1", "MATH101", "2025B">>, <<"s1", "PHYS101", "2025A">>,
     <<"", "MATH101", "2025A">>, <<"s1", "", "2025A">>}

AddInputs ==
    {SingleGrade(id, k[1], k[2], k[3], "Exam", "i1", "A", "p1", "m1") :
        id \in {"", Uuid(1)}, k \in AddKeys}
    \cup {NilGrade}

\* Requests of UpdateSingleGrade: for every grade_id, updates that populate
\* only some fields, all fields or none, and the nil grade.
UpdateInputs ==
    UNION {{SingleGrade(id, "", "", "", "", "", "B", "", ""),
            SingleGrade(id, "", "", "", "", "", "", "", "m2"),
            SingleGrade(id, "", "", "", "", "", "B", "", "m2"),
            SingleGrade(id, "s2", "", "", "", "", "", "p2", ""),
            SingleGrade(id, "", "PHYS101", "2025B", "", "", "", "", ""),
            SingleGrade(id, "", "", "", "Quiz", "i2", "", "", ""),
            SingleGrade(id, "", "", "", "", "", "", "", "")} : id \in GradeIDs}
    \cup {NilGrade}

----------------------------------------------------------------------------
(* The grades table and the statements bun builds on it *)

\* A Grade model value: the struct of db.go, timestamps as clock readings.
GradeRow(id, st, co, se, ty, it, va, by, ga, ua, cm) ==
    [GradeID |-> id, StudentID |-> st, CourseID |-> co, Semester |-> se,
     GradeType |-> ty, ItemID |-> it, GradeValue |-> va, GradedBy |-> by,
     GradedAt |-> ga, UpdatedAt |-> ua, Comments |-> cm]

\* The zero Grade, standing for the nil *Grade a failed call returns.
NoGrade == GradeRow("", "", "", "", "", "", "", "", ZeroTime, ZeroTime, "")

ErrDuplicateKey == "duplicate key value violates unique constraint"

\* Mutant of Insert: graded_at is sent as it is in the model, not as DEFAULT.
InsertGradedAtAsSent(tbl, m, t, n) ==
    LET row == [m EXCEPT
                  !.GradeID = IF m.GradeID = "" THEN Uuid(n) ELSE m.GradeID,
                  !.UpdatedAt = IF m.UpdatedAt = ZeroTime THEN t ELSE m.UpdatedAt]
    IN IF \E r \in tbl : r.GradeID = row.GradeID
       THEN [rows |-> tbl, model |-> m, err |-> ErrDuplicateKey, wrote |-> FALSE]
       ELSE [rows |-> tbl \cup {row}, model |-> row, err |-> NoErr, wrote |-> TRUE]

\* db.NewInsert().Model(m).Exec(ctx): columns tagged default: and holding the
\* zero value are sent as DEFAULT and scanned back into the model; grade_id
\* is the unique primary key.
Insert(tbl, m, t, n) ==
    LET row == [m EXCEPT
                  !.GradeID = IF m.GradeID = "" THEN Uuid(n) ELSE m.GradeID,
                  !.GradedAt = IF m.GradedAt = ZeroTime THEN t ELSE m.GradedAt,
                  !.UpdatedAt = IF m.UpdatedAt = ZeroTime THEN t ELSE m.UpdatedAt]
    IN IF \E r \in tbl : r.GradeID = row.GradeID
       THEN [rows |-> tbl, model |-> m, err |-> ErrDuplicateKey, wrote |-> FALSE]
       ELSE [rows |-> tbl \cup {row}, model |-> row, err |-> NoErr, wrote |-> TRUE]

\* Mutant of SelectWherePK: no row is not reported as an error, the model is
\* left as it was passed.
SelectWherePKNoError(tbl, id) ==
    IF \E r \in tbl : r.GradeID = id
    THEN [model |-> CHOOSE r \in tbl : r.GradeID = id, err |-> NoErr]
    ELSE [model |-> [NoGrade EXCEPT !.GradeID = id], err |-> NoErr]

\* db.NewSelect().Model(m).WherePK().Scan(ctx)
SelectWherePK(tbl, id) ==
    IF \E r \in tbl : r.GradeID = id
    THEN [model |-> CHOOSE r \in tbl : r.GradeID = id, err |-> NoErr]
    ELSE [model |-> NoGrade, err |-> ErrNoRows]

\* Mutant of UpdateWherePK: the row is addressed by its student and course,
\* not by its primary key.
UpdateWhereStudentCourse(tbl, m) ==
    [rows |-> {IF r.StudentID = m.StudentID /\ r.CourseID = m.CourseID
               THEN [m EXCEPT !.GradeID = r.GradeID] ELSE r : r \in tbl},
     err |-> NoErr, wrote |-> TRUE]

\* db.NewUpdate().Model(m).WherePK().Exec(ctx): every column of the row with
\* m's primary key is set to m's value; no row matching is not an error.
UpdateWherePK(tbl, m) ==
    [rows |-> {IF r.GradeID = m.GradeID THEN m ELSE r : r \in tbl},
     err |-> NoErr, wrote |-> TRUE]

\* db.NewDelete().Model(m).Exec(ctx), built without any Where: bun refuses to
\* build the statement and nothing reaches the store.
DeleteNoWhere(tbl, m) ==
    [rows |-> tbl, err |-> ErrNoWhere, wrote |-> FALSE]

----------------------------------------------------------------------------
(* Data access layer: the methods of Database *)

\* Mutant of AddGrade: the generated columns are not scanned back, the model
\* returned is the one that was sent.
AddGradeNotScanned(tbl, grade, t, n) ==
    IF grade.isNil
    THEN [rows |-> tbl, grade |-> NoGrade, err |-> ErrGradeNil, wrote |-> FALSE]
    ELSE LET newGrade == GradeRow("", grade.StudentID, grade.CourseID,
                                  grade.Semester, grade.GradeType, grade.ItemID,
                                  grade.GradeValue, grade.GradedBy,
                                  ZeroTime, ZeroTime, grade.Comments)
             ins == Insert(tbl, newGrade, t, n)
         IN IF ins.err # NoErr
            THEN [rows |-> tbl, grade |-> NoGrade, err |-> ins.err, wrote |-> FALSE]
            ELSE [rows |-> ins.rows, grade |-> newGrade, err |-> NoErr,
                  wrote |-> TRUE]

\* Mutant of AddGrade: the request's grade_id is kept and the row stored under
\* it is replaced.
AddGradeWithRequestID(tbl, grade, t, n) ==
    IF grade.isNil
    THEN [rows |-> tbl, grade |-> NoGrade, err |-> ErrGradeNil, wrote |-> FALSE]
    ELSE LET id == IF grade.GradeID = "" THEN Uuid(n) ELSE grade.GradeID
             newGrade == GradeRow(id, grade.StudentID, grade.CourseID,
                                  grade.Semester, grade.GradeType, grade.ItemID,
                                  grade.GradeValue, grade.GradedBy,
                                  t, t, grade.Comments)
         IN [rows |-> {r \in tbl : r.GradeID # id} \cup {newGrade},
             grade |-> newGrade, err |-> NoErr, wrote |-> TRUE]

\* Database.AddGrade
AddGrade(tbl, grade, t, n) ==
    IF grade.isNil
    THEN [rows |-> tbl, grade |-> NoGrade, err |-> ErrGradeNil, wrote |-> FALSE]
    ELSE LET newGrade == GradeRow("", grade.StudentID, grade.CourseID,
                                  grade.Semester, grade.GradeType, grade.ItemID,
                                  grade.GradeValue, grade.GradedBy,
                                  ZeroTime, ZeroTime, grade.Comments)
             ins == Insert(tbl, newGrade, t, n)
         IN IF ins.err # NoErr
            THEN [rows |-> tbl, grade |-> NoGrade, err |-> ins.err, wrote |-> FALSE]
            ELSE [rows |-> ins.rows, grade |-> ins.model, err |-> NoErr,
                  wrote |-> TRUE]

\* Mutant of Database.GetCourseGrades: the Where clause omits the semester.
GetCourseGradesAnySemester(tbl, courseID, semester) ==
    IF courseID = ""
    THEN [grades |-> {}, err |-> ErrCourseIDEmpty]
    ELSE [grades |-> {r \in tbl : r.CourseID = courseID}, err |-> NoErr]

\* Mutant of Database.GetCourseGrades: an empty result is reported as the
\* no-row error of a single-row Scan.
GetCourseGradesNoRows(tbl, courseID, semester) ==
    IF courseID = ""
    THEN [grades |-> {}, err |-> ErrCourseIDEmpty]
    ELSE IF {r \in tbl : r.CourseID = courseID /\ r.Semester = semester} = {}
    THEN [grades |-> {}, err |-> ErrNoRows]
    ELSE [grades |-> {r \in tbl : r.CourseID = courseID /\ r.Semester = semester},
          err |-> NoErr]

\* Database.GetCourseGrades
DatabaseGetCourseGrades(tbl, courseID, semester) ==
    IF courseID = ""
    THEN [grades |-> {}, err |-> ErrCourseIDEmpty]
    ELSE [grades |-> {r \in tbl : r.CourseID = courseID /\ r.Semester = semester},
          err |-> NoErr]

\* Mutant of Database.GetStudentCourseGrades: the Where clause omits the
\* student.
GetStudentCourseGradesAnyStudent(tbl, courseID, semester, studentID) ==
    IF studentID = ""
    THEN [grades |-> {}, err |-> ErrStudentIDEmpty]
    ELSE [grades |-> {r \in tbl : r.CourseID = courseID /\ r.Semester = semester},
          err |-> NoErr]

\* Database.GetStudentCourseGrades
DatabaseGetStudentCourseGrades(tbl, courseID, semester, studentID) ==
    IF studentID = ""
    THEN [grades |-> {}, err |-> ErrStudentIDEmpty]
    ELSE [grades |-> {r \in tbl : /\ r.CourseID = courseID
                                  /\ r.Semester = semester
                                  /\ r.StudentID = studentID},
          err |-> NoErr]

\* Mutant of updateField: the new value is assigned even when it is empty.
updateFieldAlways(field, newValue) == newValue

\* The updateField closure of Database.UpdateGrade.
updateField(field, newValue) == IF newValue # "" THEN newValue ELSE field

\* Mutant of Merged: new comments are appended to the stored comments.
MergedAppendComments(existingGrade, grade) ==
    [existingGrade EXCEPT
       !.StudentID = updateField(@, grade.StudentID),
       !.CourseID = updateField(@, grade.CourseID),
       !.Semester = updateField(@, grade.Semester),
       !.GradeType = updateField(@, grade.GradeType),
       !.ItemID = updateField(@, grade.ItemID),
       !.GradeValue = updateField(@, grade.GradeValue),
       !.GradedBy = updateField(@, grade.GradedBy),
       !.Comments = @ \o grade.Comments]

\* The copy of the stored row after the updateField calls of UpdateGrade.
Merged(existingGrade, grade) ==
    [existingGrade EXCEPT
       !.StudentID = updateField(@, grade.StudentID),
       !.CourseID = updateField(@, grade.CourseID),
       !.Semester = updateField(@, grade.Semester),
       !.GradeType = updateField(@, grade.GradeType),
       !.ItemID = updateField(@, grade.ItemID),
       !.GradeValue = updateField(@, grade.GradeValue),
       !.GradedBy = updateField(@, grade.GradedBy),
       !.Comments = updateField(@, grade.Comments)]

\* Mutant of UpdateGradeSelect: the grade_id is not checked before the row is
\* read.
UpdateGradeSelectUnchecked(tbl, grade) ==
    IF grade.isNil
    THEN [grade |-> NoGrade, err |-> ErrGradeNil, stmts |-> 0]
    ELSE LET sel == SelectWherePK(tbl, grade.GradeID) IN
         IF sel.err # NoErr
         THEN [grade |-> NoGrade, err |-> sel.err, stmts |-> 1]
         ELSE [grade |-> Merged(sel.model, grade), err |-> NoErr, stmts |-> 1]

\* Database.UpdateGrade up to and including the updateField calls: the checks
\* of the argument, the SELECT of the stored row and the merge into the copy
\* read.  stmts counts the statements sent to the store.
UpdateGradeSelect(tbl, grade) ==
    IF grade.isNil
    THEN [grade |-> NoGrade, err |-> ErrGradeNil, stmts |-> 0]
    ELSE IF grade.GradeID = ""
    THEN [grade |-> NoGrade, err |-> ErrGradeIDEmpty, stmts |-> 0]
    ELSE LET sel == SelectWherePK(tbl, grade.GradeID) IN
         IF sel.err # NoErr
         THEN [grade |-> NoGrade, err |-> sel.err, stmts |-> 1]
         ELSE [grade |-> Merged(sel.model, grade), err |-> NoErr, stmts |-> 1]

\* Mutant of UpdateGradeExec: the record returned is the row as the store
\* held it when the UPDATE arrived, not the copy the call merged.
UpdateGradeExecReturnsStored(tbl, existingGrade) ==
    LET upd == UpdateWherePK(tbl, existingGrade) IN
    [rows |-> upd.rows,
     grade |-> IF \E r \in tbl : r.GradeID = existingGrade.GradeID
               THEN CHOOSE r \in tbl : r.GradeID = existingGrade.GradeID
               ELSE existingGrade,
     err |-> NoErr, wrote |-> TRUE]

\* Mutant of UpdateGradeExec: the UPDATE is committed but matches no row.
UpdateGradeExecNoMatch(tbl, existingGrade) ==
    [rows |-> tbl, grade |-> existingGrade, err |-> NoErr, wrote |-> TRUE]

\* Database.UpdateGrade from its UPDATE on: the merged copy is written back
\* and returned.
UpdateGradeExec(tbl, existingGrade) ==
    LET upd == UpdateWherePK(tbl, existingGrade) IN
    IF upd.err # NoErr
    THEN [rows |-> tbl, grade |-> NoGrade, err |-> upd.err, wrote |-> FALSE]
    ELSE [rows |-> upd.rows, grade |-> existingGrade, err |-> NoErr,
          wrote |-> TRUE]

\* Mutant of UpdateGrade: when the SELECT finds no row the merged record is
\* written all the same, and the no-row error is returned after the write.
UpdateGradeUpsert(tbl, grade) ==
    LET read == UpdateGradeSelect(tbl, grade) IN
    IF read.err = ErrNoRows
    THEN [rows |-> tbl \cup {Merged([NoGrade EXCEPT !.GradeID = grade.GradeID],
                                    grade)},
          grade |-> NoGrade, err |-> read.err, wrote |-> TRUE, stmts |-> 2]
    ELSE IF read.err # NoErr
    THEN [rows |-> tbl, grade |-> NoGrade, err |-> read.err, wrote |-> FALSE,
          stmts |-> read.stmts]
    ELSE LET upd == UpdateGradeExec(tbl, read.grade) IN
         [rows |-> upd.rows, grade |-> upd.grade, err |-> upd.err,
          wrote |-> upd.wrote, stmts |-> read.stmts + 1]

\* Database.UpdateGrade, run without another statement in between.
UpdateGrade(tbl, grade) ==
    LET read == UpdateGradeSelect(tbl, grade) IN
    IF read.err # NoErr
    THEN [rows |-> tbl, grade |-> NoGrade, err |-> read.err, wrote |-> FALSE,
          stmts |-> read.stmts]
    ELSE LET upd == UpdateGradeExec(tbl, read.grade) IN
         [rows |-> upd.rows, grade |-> upd.grade, err |-> upd.err,
          wrote |-> upd.wrote, stmts |-> read.stmts + 1]

\* Mutant of Database.RemoveGrade: the grade_id is not checked before the
\* DELETE is built.
RemoveGradeUnchecked(tbl, gradeID) ==
    LET del == DeleteNoWhere(tbl, [NoGrade EXCEPT !.GradeID = gradeID])
    IN [rows |-> del.rows, err |-> del.err, wrote |-> del.wrote]

\* Database.RemoveGrade
RemoveGrade(tbl, gradeID) ==
    IF gradeID = ""
    THEN [rows |-> tbl, err |-> ErrGradeIDEmpty, wrote |-> FALSE]
    ELSE LET del == DeleteNoWhere(tbl, [NoGrade EXCEPT !.GradeID = gradeID])
         IN [rows |-> del.rows, err |-> del.err, wrote |-> del.wrote]

\* Mutant of Database.GetStudentSemesterGrades: the Where clause omits the
\* semester.
GetStudentSemesterGradesAnySemester(tbl, studentID, semester) ==
    IF studentID = ""
    THEN [grades |-> {}, err |-> ErrStudentIDEmpty]
    ELSE [grades |-> {r \in tbl : r.StudentID = studentID}, err |-> NoErr]

\* Database.GetStudentSemesterGrades
DatabaseGetStudentSemesterGrades(tbl, studentID, semester) ==
    IF studentID = ""
    THEN [grades |-> {}, err |-> ErrStudentIDEmpty]
    ELSE [grades |-> {r \in tbl : r.StudentID = studentID /\ r.Semester = semester},
          err |-> NoErr]

----------------------------------------------------------------------------
(* Service layer: GradesServer *)

\* ms.BaseServiceServer.VerifyToken, the external authentication
\* collaborator: it accepts exactly the valid tokens.
BaseVerifyToken(token) ==
    IF token \in ValidTokens THEN NoErr ELSE "invalid token"

\* Mutant of VerifyToken: the token is never checked.
VerifyTokenSkipped(claims, token) == NoErr

\* GradesServer.VerifyToken
VerifyToken(claims, token) ==
    IF claims # NilClaims
    THEN NoErr
    ELSE IF BaseVerifyToken(token) # NoErr THEN ErrInvalidToken ELSE NoErr

\* The status code the transport reports for the error a handler returns:
\* the code of the wrapped status.Error, codes.Unknown for any other error.
Unauthenticated == "Unauthenticated"
Unknown == "Unknown"
OK == "OK"

\* GradesServer.createGradesResponse
createGradesResponse(grades) ==
    {SingleGrade(g.GradeID, g.StudentID, g.CourseID, g.Semester, g.GradeType,
                 g.ItemID, g.GradeValue, g.GradedBy, g.Comments) : g \in grades}

\* What a handler leaves for the caller: the request, the status code, the
\* error of the data access layer (NoErr if none), the grades of the response,
\* the grade the data access layer returned, and the number of data-access
\* calls made.
Reply(op, token, req, code, err, resp, dbGrade, dal) ==
    [op |-> op, token |-> token, req |-> req, code |-> code, err |-> err,
     resp |-> resp, dbGrade |-> dbGrade, dal |-> dal]

\* "authentication failed": the handler returns before any data access.
AuthFailed(op, token, req) ==
    /\ call' = Reply(op, token, req, Unauthenticated, ErrInvalidToken, {}, NoGrade, 0)
    /\ UNCHANGED <<rows, now, uuids, Claims, issued, threads, mockGrades, mutex>>

\* A handler whose data-access call was a query.
Queried(op, token, req, res) ==
    /\ call' = Reply(op, token, req, IF res.err # NoErr THEN Unknown ELSE OK,
                     res.err,
                     IF res.err # NoErr THEN {} ELSE createGradesResponse(res.grades),
                     NoGrade, 1)
    /\ UNCHANGED <<rows, now, uuids, Claims, issued, threads, mockGrades, mutex>>

\* The store after a data-access call that may have written: the clock ticks
\* once per committed write.
Stored(res) ==
    /\ res.wrote => now <= MaxClock
    /\ rows' = res.rows
    /\ now' = IF res.wrote THEN now + 1 ELSE now
    /\ UNCHANGED <<Claims, mockGrades, mutex>>

\* GradesServer.GetCourseGrades
GetCourseGrades ==
    /\ Idle
    /\ \E token \in Tokens, courseID \in CourseIDs, semester \in Semesters :
        LET req == [CourseID |-> courseID, Semester |-> semester] IN
        IF VerifyToken(Claims, token) # NoErr
        THEN AuthFailed("GetCourseGrades", token, req)
        ELSE Queried("GetCourseGrades", token, req,
                     DatabaseGetCourseGrades(rows, courseID, semester))

\* GradesServer.GetStudentCourseGrades
GetStudentCourseGrades ==
    /\ Idle
    /\ \E token \in Tokens, courseID \in CourseIDs, semester \in Semesters,
          studentID \in StudentIDs :
        LET req == [CourseID |-> courseID, Semester |-> semester,
                    StudentID |-> studentID] IN
        IF VerifyToken(Claims, token) # NoErr
        THEN AuthFailed("GetStudentCourseGrades", token, req)
        ELSE Queried("GetStudentCourseGrades", token, req,
                     DatabaseGetStudentCourseGrades(rows, courseID, semester,
                                                    studentID))

\* GradesServer.GetStudentSemesterGrades
GetStudentSemesterGrades ==
    /\ Idle
    /\ \E token \in Tokens, studentID \in StudentIDs, semester \in Semesters :
        LET req == [StudentID |-> studentID, Semester |-> semester] IN
        IF VerifyToken(Claims, token) # NoErr
        THEN AuthFailed("GetStudentSemesterGrades", token, req)
        ELSE Queried("GetStudentSemesterGrades", token, req,
                     DatabaseGetStudentSemesterGrades(rows, studentID, semester))

\* GradesServer.AddSingleGrade: the response carries the request's grade.
AddSingleGrade ==
    /\ Idle
    /\ \E token \in Tokens, grade \in AddInputs :
        IF VerifyToken(Claims, token) # NoErr
        THEN AuthFailed("AddSingleGrade", token, grade)
        ELSE LET res == AddGrade(rows, grade, now, uuids + 1) IN
             /\ Stored(res)
             /\ uuids' = IF res.wrote THEN uuids + 1 ELSE uuids
             /\ issued' = IF res.err = NoErr
                          THEN issued \cup {res.grade.GradeID} ELSE issued
             /\ UNCHANGED threads
             /\ call' = Reply("AddSingleGrade", token, grade,
                              IF res.err # NoErr THEN Unknown ELSE OK, res.err,
                              IF res.err # NoErr THEN {} ELSE {grade},
                              res.grade, 1)

\* GradesServer.UpdateSingleGrade
UpdateSingleGrade ==
    /\ Idle
    /\ \E token \in Tokens, grade \in UpdateInputs :
        IF VerifyToken(Claims, token) # NoErr
        THEN AuthFailed("UpdateSingleGrade", token, grade)
        ELSE LET res == UpdateGrade(rows, grade) IN
             /\ Stored(res)
             /\ UNCHANGED <<uuids, issued, threads>>
             /\ call' = Reply("UpdateSingleGrade", token, grade,
                              IF res.err # NoErr THEN Unknown ELSE OK, res.err,
                              IF res.err # NoErr THEN {}
                              ELSE createGradesResponse({res.grade}),
                              res.grade, 1)

\* GradesServer.RemoveSingleGrade
RemoveSingleGrade ==
    /\ Idle
    /\ \E token \in Tokens, gradeID \in GradeIDs :
        LET req == [GradeID |-> gradeID] IN
        IF VerifyToken(Claims, token) # NoErr
        THEN AuthFailed("RemoveSingleGrade", token, req)
        ELSE LET res == RemoveGrade(rows, gradeID) IN
             /\ Stored(res)
             /\ UNCHANGED <<uuids, issued, threads>>
             /\ call' = Reply("RemoveSingleGrade", token, req,
                              IF res.err # NoErr THEN Unknown ELSE OK, res.err,
                              {}, NoGrade, 1)

\* The response is delivered; the server takes the next call.
Return ==
    /\ ~Idle
    /\ call' = NoCall
    /\ UNCHANGED <<rows, now, uuids, Claims, issued, threads, mockGrades, mutex>>

----------------------------------------------------------------------------
(* Specification *)

\* initGradesMicroserviceServer: an empty schema, no injected Claims.
Init ==
    /\ rows = {}
    /\ now = 1
    /\ uuids = 0
    /\ Claims = NilClaims
    /\ call = NoCall
    /\ issued = {}
    /\ threads = [g \in Goroutines |-> NoThread]
    /\ mockGrades = {}
    /\ mutex = Unlocked

Next ==
    \/ GetCourseGrades
    \/ GetStudentCourseGrades
    \/ GetStudentSemesterGrades
    \/ AddSingleGrade
    \/ UpdateSingleGrade
    \/ RemoveSingleGrade
    \/ Return

Spec == Init /\ [][Next]_vars

----------------------------------------------------------------------------
(* Calls served concurrently *)

\* The transport runs every call on a goroutine of its own and Database holds
\* no lock and opens no transaction: the statements of the calls in progress
\* reach the store one at a time, in any order.  A call with one statement is
\* one step; UpdateSingleGrade is two, its SELECT and its UPDATE, and other
\* calls may run between them.

\* A call between its SELECT and its UPDATE, and an answered call; wroteAt is
\* the store time of the write the call committed, ZeroTime if it committed
\* none.
Selected(token, req, existingGrade) ==
    [at |-> "UPDATE", op |-> "UpdateSingleGrade", token |-> token, req |-> req,
     existingGrade |-> existingGrade]

GoReply(op, token, req, err, resp, dbGrade, wroteAt) ==
    [at |-> "return", op |-> op, token |-> token, req |-> req,
     code |-> IF err = NoErr THEN OK
              ELSE IF err = ErrInvalidToken THEN Unauthenticated ELSE Unknown,
     err |-> err, resp |-> resp, dbGrade |-> dbGrade, wroteAt |-> wroteAt]

\* Requests of the concurrent calls.
GoTokens == {"test-token", "bad-token"}

GoAddInputs ==
    {SingleGrade("", "s1", "MATH101", "2025A", "Exam", "i1", "A", "p1", "m1"),
     SingleGrade("", "", "MATH101", "2025A", "Exam", "i1", "A", "p1", "m1")}

GoUpdateInputs ==
    {SingleGrade(id, "", "", "", "", "", "B", "", "") :
        id \in {"", Uuid(1), "uuid-x"}}
    \cup {SingleGrade(Uuid(1), "", "", "", "", "", "", "", "m2")}

GoRemoveInputs == {"", Uuid(1)}

GoCourseIDs == {"MATH101"}
GoSemesters == {"2025A"}

\* The UPDATE statements that calls in progress have yet to send.
Reserved == Cardinality({g \in Goroutines : threads[g].at = "UPDATE"})

\* The goroutine's call is answered without a statement being sent.
Answered(g, reply) ==
    /\ threads' = [threads EXCEPT ![g] = reply]
    /\ UNCHANGED <<rows, now, uuids, Claims, call, issued, mockGrades, mutex>>

\* GradesServer.AddSingleGrade on goroutine g.
GoAddSingleGrade(g) ==
    /\ threads[g].at = "idle"
    /\ \E token \in GoTokens, grade \in GoAddInputs :
        IF VerifyToken(Claims, token) # NoErr
        THEN Answered(g, GoReply("AddSingleGrade", token, grade, ErrInvalidToken,
                                 {}, NoGrade, ZeroTime))
        ELSE LET res == AddGrade(rows, grade, now, uuids + 1) IN
             /\ res.wrote => now + Reserved <= MaxClock
             /\ Stored(res)
             /\ uuids' = IF res.wrote THEN uuids + 1 ELSE uuids
             /\ issued' = IF res.err = NoErr
                          THEN issued \cup {res.grade.GradeID} ELSE issued
             /\ threads' = [threads EXCEPT ![g] =
                   GoReply("AddSingleGrade", token, grade, res.err,
                           IF res.err # NoErr THEN {} ELSE {grade}, res.grade,
                           IF res.wrote THEN now ELSE ZeroTime)]
             /\ UNCHANGED call

\* GradesServer.UpdateSingleGrade on goroutine g, up to the SELECT of
\* Database.UpdateGrade and the merge into the copy read.
GoUpdateSingleGradeSelect(g) ==
    /\ threads[g].at = "idle"
    /\ \E token \in GoTokens, grade \in GoUpdateInputs :
        IF VerifyToken(Claims, token) # NoErr
        THEN Answered(g, GoReply("UpdateSingleGrade", token, grade,
                                 ErrInvalidToken, {}, NoGrade, ZeroTime))
        ELSE LET read == UpdateGradeSelect(rows, grade) IN
             IF read.err # NoErr
             THEN Answered(g, GoReply("UpdateSingleGrade", token, grade, read.err,
                                      {}, NoGrade, ZeroTime))
             ELSE /\ now + Reserved <= MaxClock
                  /\ Answered(g, Selected(token, grade, read.grade))

\* GradesServer.UpdateSingleGrade on goroutine g, from the UPDATE of
\* Database.UpdateGrade to the response.
GoUpdateSingleGradeExec(g) ==
    /\ threads[g].at = "UPDATE"
    /\ LET res == UpdateGradeExec(rows, threads[g].existingGrade) IN
        /\ Stored(res)
        /\ threads' = [threads EXCEPT ![g] =
              GoReply("UpdateSingleGrade", threads[g].token, threads[g].req,
                      res.err,
                      IF res.err # NoErr THEN {}
                      ELSE createGradesResponse({res.grade}),
                      res.grade, IF res.wrote THEN now ELSE ZeroTime)]
        /\ UNCHANGED <<uuids, call, issued>>

\* GradesServer.GetCourseGrades on goroutine g.
GoGetCourseGrades(g) ==
    /\ threads[g].at = "idle"
    /\ \E token \in GoTokens, courseID \in GoCourseIDs, semester \in GoSemesters :
        LET req == [CourseID |-> courseID, Semester |-> semester] IN
        IF VerifyToken(Claims, token) # NoErr
        THEN Answered(g, GoReply("GetCourseGrades", token, req, ErrInvalidToken,
                                 {}, NoGrade, ZeroTime))
        ELSE LET res == DatabaseGetCourseGrades(rows, courseID, semester) IN
             Answered(g, GoReply("GetCourseGrades", token, req, res.err,
                                 IF res.err # NoErr THEN {}
                                 ELSE createGradesResponse(res.grades),
                                 NoGrade, ZeroTime))

\* GradesServer.RemoveSingleGrade on goroutine g.
GoRemoveSingleGrade(g) ==
    /\ threads[g].at = "idle"
    /\ \E token \in GoTokens, gradeID \in GoRemoveInputs :
        LET req == [GradeID |-> gradeID] IN
        IF VerifyToken(Claims, token) # NoErr
        THEN Answered(g, GoReply("RemoveSingleGrade", token, req, ErrInvalidToken,
                                 {}, NoGrade, ZeroTime))
        ELSE LET res == RemoveGrade(rows, gradeID) IN
             /\ res.wrote => now + Reserved <= MaxClock
             /\ Stored(res)
             /\ threads' = [threads EXCEPT ![g] =
                   GoReply("RemoveSingleGrade", token, req, res.err, {}, NoGrade,
                           IF res.wrote THEN now ELSE ZeroTime)]
             /\ UNCHANGED <<uuids, call, issued>>

\* The response is delivered; the goroutine ends.
GoReturn(g) ==
    /\ threads[g].at = "return"
    /\ Answered(g, NoThread)

GoNext ==
    \/ \E g \in Goroutines : GoAddSingleGrade(g)
    \/ \E g \in Goroutines : GoUpdateSingleGradeSelect(g)
    \/ \E g \in Goroutines : GoUpdateSingleGradeExec(g)
    \/ \E g \in Goroutines : GoRemoveSingleGrade(g)
    \/ \E g \in Goroutines : GoGetCourseGrades(g)
    \/ \E g \in Goroutines : GoReturn(g)

GoSpec == Init /\ [][GoNext]_vars

----------------------------------------------------------------------------
(* Properties *)

\* The failure classes of the error taxonomy, as sets of the errors the data
\* access layer returns.
InvalidArgumentErrors ==
    {ErrGradeNil, ErrStudentIDEmpty, ErrCourseIDEmpty, ErrGradeIDEmpty}
NotFoundErrors == {ErrNoRows}

\* The step is the handler `op` answering a call.
Handles(op) == Idle /\ call'.op = op

RPCs ==
    {"GetCourseGrades", "GetStudentCourseGrades", "GetStudentSemesterGrades",
     "AddSingleGrade", "UpdateSingleGrade", "RemoveSingleGrade"}

\* The stored row with the given grade_id (there is at most one).
RowOf(tbl, id) == CHOOSE r \in tbl : r.GradeID = id
Stored_(tbl, id) == \E r \in tbl : r.GradeID = id

\* C1: every one of the six RPCs, called with an invalid or a missing token,
\* returns Unauthenticated without invoking any data-access operation: the
\* count of data-access calls of the call is zero and the store is unchanged.
C1_UnauthenticatedRejection ==
    [][\A op \in RPCs :
         (Handles(op) /\ call'.token \notin ValidTokens)
            => /\ call'.code = Unauthenticated
               /\ call'.dal = 0
               /\ call'.resp = {}
               /\ rows' = rows /\ now' = now /\ uuids' = uuids]_vars

\* C1 witness: an update of a stored grade sent without a token was refused.
C1_Witness ==
    /\ call.op = "UpdateSingleGrade"
    /\ call.token = ""
    /\ ~call.req.isNil
    /\ Stored_(rows, call.req.GradeID)
    /\ call.req.GradeValue = "B"
    /\ call.code = Unauthenticated

\* C2: a create with an empty student_id or an empty course_id fails with
\* InvalidArgument and persists no row.
C2_CreateValidation ==
    [][(/\ Handles("AddSingleGrade")
        /\ call'.token \in ValidTokens
        /\ (call'.req.StudentID = "" \/ call'.req.CourseID = ""))
            => /\ call'.err \in InvalidArgumentErrors
               /\ call'.code # OK
               /\ rows' = rows]_vars

OnlyGradeValue(req) ==
    /\ req.GradeValue # ""
    /\ \A f \in StringFields \ {"GradeValue"} : req[f] = ""

\* C4: a successful update overwrites exactly the stored fields whose request
\* field is non-empty and leaves the others as stored; with only grade_value
\* populated the persisted record equals the stored one in every field but
\* grade_value and updated_at.
C4_UpdatePartiality ==
    [][(Handles("UpdateSingleGrade") /\ call'.err = NoErr)
            => LET req == call'.req
                   R == RowOf(rows, req.GradeID)
                   P == RowOf(rows', req.GradeID)
               IN /\ Stored_(rows, req.GradeID)
                  /\ Stored_(rows', req.GradeID)
                  /\ \A f \in StringFields :
                        P[f] = IF req[f] # "" THEN req[f] ELSE R[f]
                  /\ P.GradeID = R.GradeID
                  /\ P.GradedAt = R.GradedAt
                  /\ OnlyGradeValue(req) =>
                        /\ P.GradeValue = req.GradeValue
                        /\ [P EXCEPT !.GradeValue = "", !.UpdatedAt = ZeroTime]
                             = [R EXCEPT !.GradeValue = "", !.UpdatedAt = ZeroTime]
                  /\ call'.dbGrade = P]_vars

\* C4 witness: an update carrying only grade_value "B" has been applied to a
\* record stored with grade_value "A"; the record kept its other fields.
C4_Witness ==
    /\ call.op = "UpdateSingleGrade"
    /\ call.err = NoErr
    /\ OnlyGradeValue(call.req)
    /\ Stored_(rows, call.req.GradeID)
    /\ LET P == RowOf(rows, call.req.GradeID)
       IN /\ P.GradeValue = "B"
          /\ P.StudentID = "s1" /\ P.CourseID = "MATH101"
          /\ P.Comments = "m1" /\ P.GradedBy = "p1"

\* C5: an update whose non-empty grade_id is not in the store fails with
\* NotFound and creates, modifies and removes no record.
C5_UpdateNotFound ==
    [][(/\ Handles("UpdateSingleGrade")
        /\ call'.token \in ValidTokens
        /\ ~call'.req.isNil
        /\ call'.req.GradeID # ""
        /\ ~Stored_(rows, call'.req.GradeID))
            => /\ call'.err \in NotFoundErrors
               /\ call'.code # OK
               /\ call'.resp = {}
               /\ rows' = rows]_vars

\* C5 witness: an update naming a grade_id that is not stored, sent to a
\* store holding other records, has failed with the no-row error.
C5_Witness ==
    /\ call.op = "UpdateSingleGrade"
    /\ call.token \in ValidTokens
    /\ call.req.GradeID = "uuid-x"
    /\ call.req.GradeValue = "B"
    /\ rows # {}
    /\ call.err = ErrNoRows

\* C6: the delete of a stored grade_id succeeds and removes the record, and a
\* delete of a grade_id that is not stored (already deleted, or never stored)
\* fails with NotFound.
C6_DeleteOnce ==
    [][(/\ Handles("RemoveSingleGrade")
        /\ call'.token \in ValidTokens
        /\ call'.req.GradeID # "")
            => IF Stored_(rows, call'.req.GradeID)
               THEN /\ call'.err = NoErr
                    /\ call'.code = OK
                    /\ rows' = rows \ {RowOf(rows, call'.req.GradeID)}
               ELSE /\ call'.err \in NotFoundErrors
                    /\ call'.code # OK
                    /\ rows' = rows]_vars

\* The fields a wire grade and a stored row share.
WireFields == StringFields \cup {"GradeID"}
Wire(records) == {[f \in WireFields |-> g[f]] : g \in records}

ByCourse(tbl, c, s) == {r \in tbl : r.CourseID = c /\ r.Semester = s}
ByStudentInCourse(tbl, c, s, st) ==
    {r \in tbl : r.CourseID = c /\ r.Semester = s /\ r.StudentID = st}
ByStudentInSemester(tbl, st, s) ==
    {r \in tbl : r.StudentID = st /\ r.Semester = s}

\* The call answered is the authenticated retrieval `op`.  A retrieval leaves
\* the store as it is, so `rows` is the store it was answered from; the
\* statements about all arguments are evaluated in the states between calls,
\* one of which exists for every store state.
Retrieved(op) == call.op = op /\ call.token \in ValidTokens

FreshlyCreated ==
    /\ call.op = "AddSingleGrade"
    /\ call.err = NoErr
    /\ \A r \in ByStudentInCourse(rows, call.req.CourseID, call.req.Semester,
                                  call.req.StudentID) :
          r.GradeID = call.dbGrade.GradeID

C11_UpdateEmptyGradeID ==
    [][(/\ Handles("UpdateSingleGrade")
        /\ call'.token \in ValidTokens
        /\ call'.req.GradeID = "")
            => /\ call'.err \in InvalidArgumentErrors
               /\ ~call'.req.isNil => call'.err = ErrGradeIDEmpty
               /\ call'.code # OK
               /\ call'.resp = {}
               /\ UpdateGrade(rows, call'.req).stmts = 0
               /\ rows' = rows /\ now' = now]_vars

\* C11 witness: an update populating grade_value but no grade_id, sent to a
\* store holding records, has failed with "grade ID is empty".
C11_Witness ==
    /\ call.op = "UpdateSingleGrade"
    /\ call.token \in ValidTokens
    /\ ~call.req.isNil
    /\ call.req.GradeID = ""
    /\ call.req.GradeValue = "B"
    /\ rows # {}
    /\ call.err = ErrGradeIDEmpty

\* C12: a delete whose grade_id is empty fails with InvalidArgument ("grade ID
\* is empty") and leaves the store unchanged.
C12_DeleteEmptyGradeID ==
    [][(/\ Handles("RemoveSingleGrade")
        /\ call'.token \in ValidTokens
        /\ call'.req.GradeID = "")
            => /\ call'.err = ErrGradeIDEmpty
               /\ call'.err \in InvalidArgumentErrors
               /\ call'.code # OK
               /\ rows' = rows /\ now' = now]_vars

\* C12 witness: a delete without a grade_id, sent to a store holding records,
\* has failed with "grade ID is empty".
C12_Witness ==
    /\ call.op = "RemoveSingleGrade"
    /\ call.token \in ValidTokens
    /\ call.req.GradeID = ""
    /\ rows # {}
    /\ call.err = ErrGradeIDEmpty

\* C13: every successful update sets the record's updated_at to the time of
\* the update, strictly later than the value stored before it, whichever
\* fields the request populated.
C13_UpdatedAtAdvances ==
    [][(Handles("UpdateSingleGrade") /\ call'.err = NoErr)
            => LET R == RowOf(rows, call'.req.GradeID)
                   P == RowOf(rows', call'.req.GradeID)
               IN /\ P.UpdatedAt = now
                  /\ P.UpdatedAt > R.UpdatedAt]_vars

C16_AddReturnsPersisted ==
    (call.op = "AddSingleGrade" /\ call.err = NoErr)
        => /\ Stored_(rows, call.dbGrade.GradeID)
           /\ Wire(call.resp) = Wire({RowOf(rows, call.dbGrade.GradeID)})

\* C17: right after a successful AddSingleGrade whose request carried a
\* non-empty grade_id G, the created record is stored under G and
\* RemoveGrade(G) succeeds and removes it.
C17_AddThenRemove ==
    (call.op = "AddSingleGrade" /\ call.err = NoErr /\ call.req.GradeID # "")
        => /\ call.dbGrade.GradeID = call.req.GradeID
           /\ Stored_(rows, call.req.GradeID)
           /\ RemoveGrade(rows, call.req.GradeID).err = NoErr
           /\ ~Stored_(RemoveGrade(rows, call.req.GradeID).rows, call.req.GradeID)

\* The status codes of the error taxonomy.
InvalidArgument == "InvalidArgument"
NotFound == "NotFound"
Internal == "Internal"

\* C18: a failure of the data access layer reaches the caller with the status
\* code of its class: InvalidArgument for an empty identity or required
\* field, NotFound for a missing record, Internal for any other failure of
\* the store; and no failure is answered with OK or with a response.
C18_ErrorMapping ==
    (~Idle /\ call.dal = 1 /\ call.err # NoErr)
        => /\ call.code # OK
           /\ call.resp = {}
           /\ call.err \in InvalidArgumentErrors => call.code = InvalidArgument
           /\ call.err \in NotFoundErrors => call.code = NotFound
           /\ call.err \notin (InvalidArgumentErrors \cup NotFoundErrors)
                => call.code = Internal

\* The call of goroutine g is an update answered with success.
Updated(g) ==
    /\ threads[g].at = "return"
    /\ threads[g].op = "UpdateSingleGrade"
    /\ threads[g].err = NoErr

\* C19: with calls served concurrently, every create, update or delete that
\* is answered with success has committed one write that satisfies the
\* invariants of a record (a created record has a grade_id, a non-empty
\* student_id and course_id and both timestamps at its creation time; an
\* updated record keeps its grade_id and has updated_at at the time of the
\* update), the record written being in the store as long as no later write
\* was committed; and every one answered with a failure has committed none.
C19_NoPartialSuccess ==
    \A g \in Goroutines :
        (/\ threads[g].at = "return"
         /\ threads[g].op \in {"AddSingleGrade", "UpdateSingleGrade",
                               "RemoveSingleGrade"})
            => LET c == threads[g] IN
               IF c.err # NoErr
               THEN c.wroteAt = ZeroTime
               ELSE /\ c.wroteAt # ZeroTime
                    /\ c.op = "AddSingleGrade"
                         => /\ c.dbGrade.GradeID # ""
                            /\ c.dbGrade.StudentID # ""
                            /\ c.dbGrade.CourseID # ""
                            /\ c.dbGrade.GradedAt = c.wroteAt
                            /\ c.dbGrade.UpdatedAt = c.wroteAt
                    /\ c.op = "UpdateSingleGrade"
                         => /\ c.dbGrade.GradeID = c.req.GradeID
                            /\ c.dbGrade.UpdatedAt = c.wroteAt
                    /\ c.wroteAt = now - 1
                         => IF c.op = "RemoveSingleGrade"
                            THEN ~Stored_(rows, c.req.GradeID)
                            ELSE c.dbGrade \in rows

\* C20: with calls served concurrently, a call that has read its record can
\* always send its UPDATE and the UPDATE succeeds, whatever the other calls
\* have written since; and when two updates of one grade_id have both been
\* answered with success, the one whose UPDATE was the last write committed
\* has its merged record stored, as it returned it.
C20_LastWriteWins ==
    /\ \A g \in Goroutines :
          threads[g].at = "UPDATE"
            => /\ ENABLED GoUpdateSingleGradeExec(g)
               /\ UpdateGradeExec(rows, threads[g].existingGrade).err = NoErr
    /\ \A g, h \in Goroutines :
          (/\ g # h
           /\ Updated(g) /\ Updated(h)
           /\ threads[g].req.GradeID = threads[h].req.GradeID
           /\ threads[g].wroteAt < threads[h].wroteAt
           /\ threads[h].wroteAt = now - 1)
            => /\ Stored_(rows, threads[h].req.GradeID)
               /\ RowOf(rows, threads[h].req.GradeID) = threads[h].dbGrade

\* C20 witness: two updates of the record uuid-1, one of grade_value and one
\* of comments, both read the record before either wrote; both were answered
\* with success and the stored record is the one the second writer merged,
\* with the new comments and the grade_value it had read.
C20_Witness ==
    \E g, h \in Goroutines :
        /\ g # h
        /\ Updated(g) /\ Updated(h)
        /\ threads[g].req.GradeID = Uuid(1)
        /\ threads[h].req.GradeID = Uuid(1)
        /\ threads[g].req.GradeValue = "B"
        /\ threads[h].req.Comments = "m2"
        /\ threads[g].wroteAt < threads[h].wroteAt
        /\ threads[h].wroteAt = now - 1
        /\ threads[g].dbGrade.GradeValue = "B"
        /\ threads[h].dbGrade.GradeValue = "A"
        /\ RowOf(rows, Uuid(1)) = threads[h].dbGrade
        /\ RowOf(rows, Uuid(1)).Comments = "m2"

\* C21: once a delete that names the grade_id G of a created record has been
\* answered, the record is gone: the delete succeeded, G is not stored, none
\* of the three retrievals returns a record with grade_id G, and an update of
\* G fails with NotFound.
C21_DeletedPermanentlyGone ==
    (/\ call.op = "RemoveSingleGrade"
     /\ call.token \in ValidTokens
     /\ call.req.GradeID \in issued)
        => LET G == call.req.GradeID IN
           /\ call.err = NoErr
           /\ ~Stored_(rows, G)
           /\ \A c \in CourseIDs, s \in Semesters :
                 \A r \in DatabaseGetCourseGrades(rows, c, s).grades :
                     r.GradeID # G
           /\ \A c \in CourseIDs, s \in Semesters, st \in StudentIDs :
                 \A r \in DatabaseGetStudentCourseGrades(rows, c, s, st).grades :
                     r.GradeID # G
           /\ \A st \in StudentIDs, s \in Semesters :
                 \A r \in DatabaseGetStudentSemesterGrades(rows, st, s).grades :
                     r.GradeID # G
           /\ UpdateGrade(rows, SingleGrade(G, "", "", "", "", "", "B", "", "")).err
                 \in NotFoundErrors

\* The table with the updated_at of every row blanked.
ButUpdatedAt(tbl) == {[r EXCEPT !.UpdatedAt = ZeroTime] : r \in tbl}

\* C22: the update just answered with success, applied once more to the
\* store it left, succeeds again and leaves every record as it is in every
\* field except updated_at, and returns the same record.
C22_UpdateIdempotent ==
    (call.op = "UpdateSingleGrade" /\ call.err = NoErr)
        => LET again == UpdateGrade(rows, call.req) IN
           /\ again.err = NoErr
           /\ ButUpdatedAt(again.rows) = ButUpdatedAt(rows)
           /\ ButUpdatedAt({again.grade}) = ButUpdatedAt({call.dbGrade})

\* C22 witness: an update of grade_value and comments has changed a stored
\* record, and the same update applied again would leave it as it is.
C22_Witness ==
    /\ call.op = "UpdateSingleGrade"
    /\ call.err = NoErr
    /\ call.req.GradeValue = "B"
    /\ call.req.Comments = "m2"
    /\ RowOf(rows, call.req.GradeID).GradeValue = "B"
    /\ RowOf(rows, call.req.GradeID).Comments = "m2"
    /\ UpdateGrade(rows, call.req).rows = rows

\* C26: a successful create stores and returns the new record with graded_at
\* and updated_at both at the time of the create, and no step, in particular
\* no update, changes the graded_at of a stored record.
C26_CreateTimestamps ==
    [][/\ (Handles("AddSingleGrade") /\ call'.err = NoErr)
            => /\ call'.dbGrade.GradedAt = now
               /\ call'.dbGrade.UpdatedAt = now
               /\ call'.dbGrade.GradedAt # ZeroTime
               /\ call'.dbGrade \in rows'
       /\ \A r \in rows, q \in rows' :
            q.GradeID = r.GradeID => q.GradedAt = r.GradedAt]_vars

\* C26 witness: a record created at time 1 has been updated at time 2 and
\* still carries graded_at 1.
C26_Witness ==
    /\ call.op = "UpdateSingleGrade"
    /\ call.err = NoErr
    /\ now = 3
    /\ call.req.GradeValue = "B"
    /\ RowOf(rows, call.req.GradeID).GradedAt = 1
    /\ RowOf(rows, call.req.GradeID).GradeValue = "B"

\* C27: a successful update leaves the number of stored records as it was,
\* and after the update of grade_value and comments of the only stored
\* record, GetStudentCourseGrades for the record's course, semester and
\* student returns exactly one record, with the new grade_value and comments.
C27_UpdateKeepsCount ==
    [][(Handles("UpdateSingleGrade") /\ call'.err = NoErr)
            => /\ Cardinality(rows') = Cardinality(rows)
               /\ (/\ Cardinality(rows) = 1
                   /\ call'.req.GradeValue # ""
                   /\ call'.req.Comments # "")
                    => LET P == call'.dbGrade
                           res == DatabaseGetStudentCourseGrades(
                                      rows', P.CourseID, P.Semester, P.StudentID)
                       IN /\ res.err = NoErr
                          /\ Cardinality(res.grades) = 1
                          /\ \A g \in res.grades :
                                /\ g.GradeValue = call'.req.GradeValue
                                /\ g.Comments = call'.req.Comments]_vars

\* C28: every stored record has a non-empty student_id and a non-empty
\* course_id.
C28_RequiredFieldsNonEmpty ==
    \A r \in rows : r.StudentID # "" /\ r.CourseID # ""

Retrievals ==
    {"GetCourseGrades", "GetStudentCourseGrades", "GetStudentSemesterGrades"}

\* C29: a retrieval, and every call answered with a failure (a validation
\* failure, a missing record, a refused statement, a failed authentication),
\* leaves the set of stored records and every field of every record as they
\* were, and the store clock and the identifier generator too.
C29_ReadsAndFailuresLeaveStore ==
    [][\A op \in RPCs :
         (Handles(op) /\ (op \in Retrievals \/ call'.code # OK))
            => rows' = rows /\ now' = now /\ uuids' = uuids]_vars

\* C29 witness: with two records stored, a create of the nil grade has been
\* answered with a failure.
C29_Witness ==
    /\ call.op = "AddSingleGrade"
    /\ call.token \in ValidTokens
    /\ call.req.isNil
    /\ call.err = ErrGradeNil
    /\ Cardinality(rows) = 2

----------------------------------------------------------------------------
(* MockDatabase: the in-memory implementation of DBInterface *)

\* The map m.grades is modelled by the set of the Grade values it points to,
\* at most one for a key.

ErrGradeNotFound == "grade not found"

\* The checks MockDatabase.AddGrade makes before it takes the lock.
MockAddGradeCheck(grade) ==
    IF grade.isNil THEN ErrGradeNil
    ELSE IF grade.StudentID = "" THEN ErrStudentIDEmpty
    ELSE IF grade.CourseID = "" THEN ErrCourseIDEmpty
    ELSE NoErr

\* MockDatabase.AddGrade; t and u are its two readings of time.Now(), n the
\* number of the identifier uuid.New() returns.
MockAddGrade(m, grade, t, u, n) ==
    IF MockAddGradeCheck(grade) # NoErr
    THEN [map |-> m, grade |-> NoGrade, err |-> MockAddGradeCheck(grade),
          wrote |-> FALSE]
    ELSE LET gradeID == IF grade.GradeID = "" THEN Uuid(n) ELSE grade.GradeID
             dbGrade == GradeRow(gradeID, grade.StudentID, grade.CourseID,
                                 grade.Semester, grade.GradeType, grade.ItemID,
                                 grade.GradeValue, grade.GradedBy, t, u,
                                 grade.Comments)
         IN [map |-> {r \in m : r.GradeID # gradeID} \cup {dbGrade},
             grade |-> dbGrade, err |-> NoErr, wrote |-> TRUE]

\* MockDatabase.GetCourseGrades
MockGetCourseGrades(m, courseID, semester) ==
    [grades |-> {r \in m : r.CourseID = courseID /\ r.Semester = semester},
     err |-> NoErr]

\* MockDatabase.GetStudentCourseGrades
MockGetStudentCourseGrades(m, courseID, semester, studentID) ==
    [grades |-> {r \in m : /\ r.CourseID = courseID
                           /\ r.Semester = semester
                           /\ r.StudentID = studentID},
     err |-> NoErr]

\* MockDatabase.GetStudentSemesterGrades
MockGetStudentSemesterGrades(m, studentID, semester) ==
    [grades |-> {r \in m : r.StudentID = studentID /\ r.Semester = semester},
     err |-> NoErr]

\* The fields in the order updateGradeFields assigns them.
FieldOrder ==
    <<"StudentID", "CourseID", "Semester", "GradeType", "ItemID", "GradeValue",
      "GradedBy", "Comments">>

\* One if-statement of updateGradeFields: the k-th field is assigned when the
\* request carries a value for it.
AssignField(existing, grade, k) ==
    IF grade[FieldOrder[k]] # ""
    THEN [existing EXCEPT ![FieldOrder[k]] = grade[FieldOrder[k]]]
    ELSE existing

\* The if-statements of updateGradeFields from the k-th on.
RECURSIVE AssignFieldsFrom(_, _, _)
AssignFieldsFrom(existing, grade, k) ==
    IF k > Len(FieldOrder)
    THEN existing
    ELSE AssignFieldsFrom(AssignField(existing, grade, k), grade, k + 1)

\* MockDatabase.updateGradeFields
updateGradeFields(existing, grade) == AssignFieldsFrom(existing, grade, 1)

\* The checks MockDatabase.UpdateGrade makes before it takes the lock.
MockUpdateGradeCheck(grade) ==
    IF grade.isNil THEN ErrGradeNil
    ELSE IF grade.GradeID = "" THEN ErrGradeIDEmpty
    ELSE NoErr

\* MockDatabase.UpdateGrade; t is its reading of time.Now().
MockUpdateGrade(m, grade, t) ==
    IF MockUpdateGradeCheck(grade) # NoErr
    THEN [map |-> m, grade |-> NoGrade, err |-> MockUpdateGradeCheck(grade),
          wrote |-> FALSE]
    ELSE IF ~\E r \in m : r.GradeID = grade.GradeID
    THEN [map |-> m, grade |-> NoGrade, err |-> ErrGradeNotFound, wrote |-> FALSE]
    ELSE LET existing == CHOOSE r \in m : r.GradeID = grade.GradeID
             updated == [updateGradeFields(existing, grade) EXCEPT !.UpdatedAt = t]
         IN [map |-> (m \ {existing}) \cup {updated}, grade |-> updated,
             err |-> NoErr, wrote |-> TRUE]

\* The check MockDatabase.RemoveGrade makes before it takes the lock.
MockRemoveGradeCheck(gradeID) == IF gradeID = "" THEN ErrGradeIDEmpty ELSE NoErr

\* MockDatabase.RemoveGrade
MockRemoveGrade(m, gradeID) ==
    IF MockRemoveGradeCheck(gradeID) # NoErr
    THEN [map |-> m, err |-> MockRemoveGradeCheck(gradeID), wrote |-> FALSE]
    ELSE IF ~\E r \in m : r.GradeID = gradeID
    THEN [map |-> m, err |-> ErrGradeNotFound, wrote |-> FALSE]
    ELSE [map |-> {r \in m : r.GradeID # gradeID}, err |-> NoErr, wrote |-> TRUE]

----------------------------------------------------------------------------
(* Database and MockDatabase side by side *)

\* The same sequence of DBInterface calls is made on a Database over the
\* table `rows` and on a MockDatabase over the map `mockGrades`, both empty at
\* the start; `call` holds the call and what each implementation returned.

BothAddInputs ==
    {SingleGrade("", "s1", "MATH101", "2025A", "Exam", "i1", "A", "p1", "m1"),
     SingleGrade("", "s2", "MATH101", "2025A", "Exam", "i1", "A", "p1", "m1"),
     SingleGrade(Uuid(1), "s1", "MATH101", "2025A", "Exam", "i1", "A", "p1", "m1"),
     SingleGrade("", "", "MATH101", "2025A", "Exam", "i1", "A", "p1", "m1"),
     SingleGrade("", "s1", "", "2025A", "Exam", "i1", "A", "p1", "m1"),
     NilGrade}

BothUpdateInputs ==
    {SingleGrade(id, "", "", "", "", "", "B", "", "m2") :
        id \in {"", Uuid(1), "uuid-x"}}
    \cup {NilGrade}

BothRemoveInputs == {"", Uuid(1), "uuid-x"}

\* What one implementation returned: its error and, for a retrieval, its
\* records.
Returned(err, records) ==
    [err |-> err, grades |-> IF err = NoErr THEN records ELSE {}]

BothReturned(op, req, db, mock) ==
    [op |-> op, req |-> req, db |-> db, mock |-> mock]

\* Both implementations have run a call that may write: a clock tick for the
\* call, an identifier for the create.
BothStored(db, mock) ==
    /\ (db.wrote \/ mock.wrote) => now <= MaxClock
    /\ rows' = db.rows
    /\ mockGrades' = mock.map
    /\ now' = IF db.wrote \/ mock.wrote THEN now + 1 ELSE now
    /\ UNCHANGED <<Claims, issued, threads, mutex>>

\* Both implementations have run a retrieval.
BothQueried(op, req, db, mock) ==
    /\ call' = BothReturned(op, req, Returned(db.err, db.grades),
                            Returned(mock.err, mock.grades))
    /\ UNCHANGED <<rows, mockGrades, now, uuids, Claims, issued, threads, mutex>>

\* DBInterface.AddGrade on both.
BothAddGrade ==
    /\ Idle
    /\ \E grade \in BothAddInputs, u \in {now, now + 1} :
        LET db == AddGrade(rows, grade, now, uuids + 1)
            mock == MockAddGrade(mockGrades, grade, now, u, uuids + 1)
        IN /\ BothStored(db, mock)
           /\ uuids' = IF db.wrote \/ mock.wrote THEN uuids + 1 ELSE uuids
           /\ call' = BothReturned("AddGrade", grade, Returned(db.err, {}),
                                   Returned(mock.err, {}))

\* DBInterface.UpdateGrade on both.
BothUpdateGrade ==
    /\ Idle
    /\ \E grade \in BothUpdateInputs :
        LET db == UpdateGrade(rows, grade)
            mock == MockUpdateGrade(mockGrades, grade, now)
        IN /\ BothStored(db, mock)
           /\ call' = BothReturned("UpdateGrade", grade, Returned(db.err, {}),
                                   Returned(mock.err, {}))
           /\ UNCHANGED uuids

\* DBInterface.RemoveGrade on both.
BothRemoveGrade ==
    /\ Idle
    /\ \E gradeID \in BothRemoveInputs :
        LET db == RemoveGrade(rows, gradeID)
            mock == MockRemoveGrade(mockGrades, gradeID)
        IN /\ BothStored(db, mock)
           /\ call' = BothReturned("RemoveGrade", gradeID, Returned(db.err, {}),
                                   Returned(mock.err, {}))
           /\ UNCHANGED uuids

\* DBInterface.GetCourseGrades on both.
BothGetCourseGrades ==
    /\ Idle
    /\ \E courseID \in CourseIDs, semester \in Semesters :
        BothQueried("GetCourseGrades", <<courseID, semester>>,
                    DatabaseGetCourseGrades(rows, courseID, semester),
                    MockGetCourseGrades(mockGrades, courseID, semester))

\* DBInterface.GetStudentCourseGrades on both.
BothGetStudentCourseGrades ==
    /\ Idle
    /\ \E courseID \in CourseIDs, semester \in Semesters, studentID \in StudentIDs :
        BothQueried("GetStudentCourseGrades", <<courseID, semester, studentID>>,
                    DatabaseGetStudentCourseGrades(rows, courseID, semester,
                                                   studentID),
                    MockGetStudentCourseGrades(mockGrades, courseID, semester,
                                               studentID))

\* DBInterface.GetStudentSemesterGrades on both.
BothGetStudentSemesterGrades ==
    /\ Idle
    /\ \E studentID \in StudentIDs, semester \in Semesters :
        BothQueried("GetStudentSemesterGrades", <<studentID, semester>>,
                    DatabaseGetStudentSemesterGrades(rows, studentID, semester),
                    MockGetStudentSemesterGrades(mockGrades, studentID, semester))

\* Both have returned; the next call of the sequence is made.
BothReturn ==
    /\ ~Idle
    /\ call' = NoCall
    /\ UNCHANGED <<rows, mockGrades, now, uuids, Claims, issued, threads, mutex>>

BothNext ==
    \/ BothAddGrade
    \/ BothUpdateGrade
    \/ BothRemoveGrade
    \/ BothGetCourseGrades
    \/ BothGetStudentCourseGrades
    \/ BothGetStudentSemesterGrades
    \/ BothReturn

BothSpec == Init /\ [][BothNext]_vars

\* The outcome class of a data-access error.
OutcomeClass(err) ==
    IF err = NoErr THEN OK
    ELSE IF err \in InvalidArgumentErrors THEN InvalidArgument
    ELSE IF err \in NotFoundErrors \cup {ErrGradeNotFound} THEN NotFound
    ELSE Internal

\* C23: on the same sequence of calls from the empty store, Database and
\* MockDatabase return the same outcome class for every call and records with
\* the same fields for every retrieval.
C23_DatabaseMockEquivalent ==
    ~Idle => /\ OutcomeClass(call.db.err) = OutcomeClass(call.mock.err)
             /\ Wire(call.db.grades) = Wire(call.mock.grades)

----------------------------------------------------------------------------
(* MockDatabase under concurrent calls *)

\* Every call runs on a goroutine of its own.  A writing call is the checks of
\* its arguments, m.mutex.Lock(), its statements on the map and the deferred
\* m.mutex.Unlock(); a retrieval is m.mutex.RLock(), its scan of the map and
\* the deferred m.mutex.RUnlock().  The statements of different goroutines
\* interleave in any order the mutex allows.  UpdateGrade changes the stored
\* Grade in place, one field at a time.

MockAddInputs ==
    {SingleGrade("", "s1", "MATH101", "2025A", "Exam", "i1", "A", "p1", "m1"),
     SingleGrade(Uuid(1), "s1", "MATH101", "2025A", "Quiz", "i2", "C", "p1", "m1"),
     SingleGrade("", "", "MATH101", "2025A", "Exam", "i1", "A", "p1", "m1")}

MockUpdateInputs ==
    {SingleGrade(Uuid(1), "", "", "", "", "", "B", "", "m2"),
     SingleGrade("", "", "", "", "", "", "B", "", "")}

MockRemoveInputs == {Uuid(1)}

MockStudentIDs == {"s1"}

\* Mutant of CanRLock: a reader does not wait for the writer.
CanRLockAlways(mu) == TRUE

\* m.mutex.RLock() returns when no goroutine holds the write lock.
CanRLock(mu) == mu.writer = NoGoroutine

\* m.mutex.Lock() returns when no goroutine holds the lock in either mode.
CanLock(mu) == mu.writer = NoGoroutine /\ mu.readers = {}

\* A call in progress: where it is, its arguments, and its locals: the map as
\* it was when the call took the lock, its readings of time.Now(), the number
\* of its generated identifier, the next if-statement of updateGradeFields,
\* and what it returns.
MockThread(at, op, req, err, before) ==
    [at |-> at, op |-> op, req |-> req, err |-> err, before |-> before,
     t |-> ZeroTime, u |-> ZeroTime, n |-> 0, k |-> 0, grades |-> {}]

\* The writing calls waiting for the lock.
MockWaiting == Cardinality({g \in Goroutines : threads[g].at = "Lock"})

\* The checks of a writing call have run: it returns the failure or goes on
\* to take the lock.
MockChecked(g, op, req, err) ==
    /\ err = NoErr => now + MockWaiting <= MaxClock
    /\ threads' = [threads EXCEPT ![g] =
          MockThread(IF err = NoErr THEN "Lock" ELSE "return", op, req, err, {})]
    /\ UNCHANGED <<rows, now, uuids, Claims, call, issued, mockGrades, mutex>>

\* MockDatabase.AddGrade on goroutine g, up to m.mutex.Lock().
MockAddGradeCheckArgs(g) ==
    /\ threads[g].at = "idle"
    /\ \E grade \in MockAddInputs :
            MockChecked(g, "AddGrade", grade, MockAddGradeCheck(grade))

\* MockDatabase.UpdateGrade on goroutine g, up to m.mutex.Lock().
MockUpdateGradeCheckArgs(g) ==
    /\ threads[g].at = "idle"
    /\ \E grade \in MockUpdateInputs :
            MockChecked(g, "UpdateGrade", grade, MockUpdateGradeCheck(grade))

\* MockDatabase.RemoveGrade on goroutine g, up to m.mutex.Lock().
MockRemoveGradeCheckArgs(g) ==
    /\ threads[g].at = "idle"
    /\ \E gradeID \in MockRemoveInputs :
            MockChecked(g, "RemoveGrade", gradeID, MockRemoveGradeCheck(gradeID))

\* m.mutex.Lock() returns on goroutine g.
MockLock(g) ==
    /\ threads[g].at = "Lock"
    /\ CanLock(mutex)
    /\ mutex' = [mutex EXCEPT !.writer = g]
    /\ threads' = [threads EXCEPT ![g].at = "locked", ![g].before = mockGrades,
                                  ![g].t = now]
    /\ now' = now + 1
    /\ UNCHANGED <<rows, uuids, Claims, call, issued, mockGrades>>

\* MockDatabase.AddGrade on goroutine g, under the lock.
MockAddGradeStore(g) ==
    /\ threads[g].at = "locked"
    /\ threads[g].op = "AddGrade"
    /\ \E u \in {threads[g].t, threads[g].t + 1} :
        LET res == MockAddGrade(mockGrades, threads[g].req, threads[g].t, u,
                                uuids + 1)
        IN /\ mockGrades' = res.map
           /\ uuids' = IF threads[g].req.GradeID = "" THEN uuids + 1 ELSE uuids
           /\ threads' = [threads EXCEPT ![g].at = "Unlock", ![g].u = u,
                                         ![g].n = uuids + 1,
                                         ![g].grades = {res.grade}]
    /\ UNCHANGED <<rows, now, Claims, call, issued, mutex>>

\* The first if-statement of updateGradeFields from the k-th on whose test
\* succeeds; the ones before it touch nothing.
RECURSIVE NextField(_, _)
NextField(grade, k) ==
    IF k > Len(FieldOrder) \/ grade[FieldOrder[k]] # ""
    THEN k
    ELSE NextField(grade, k + 1)

\* MockDatabase.UpdateGrade on goroutine g, under the lock: the lookup.
MockUpdateGradeLookup(g) ==
    /\ threads[g].at = "locked"
    /\ threads[g].op = "UpdateGrade"
    /\ threads' = IF \E r \in mockGrades : r.GradeID = threads[g].req.GradeID
                  THEN [threads EXCEPT ![g].at = "fields",
                                       ![g].k = NextField(threads[g].req, 1)]
                  ELSE [threads EXCEPT ![g].at = "Unlock",
                                       ![g].err = ErrGradeNotFound]
    /\ UNCHANGED <<rows, now, uuids, Claims, call, issued, mockGrades, mutex>>

\* MockDatabase.UpdateGrade on goroutine g, under the lock: one assignment of
\* updateGradeFields.
MockUpdateGradeField(g) ==
    /\ threads[g].at = "fields"
    /\ threads[g].k <= Len(FieldOrder)
    /\ mockGrades' = {IF r.GradeID = threads[g].req.GradeID
                       THEN AssignField(r, threads[g].req, threads[g].k)
                       ELSE r : r \in mockGrades}
    /\ threads' = [threads EXCEPT
                     ![g].k = NextField(threads[g].req, threads[g].k + 1)]
    /\ UNCHANGED <<rows, now, uuids, Claims, call, issued, mutex>>

\* MockDatabase.UpdateGrade on goroutine g, under the lock:
\* existing.UpdatedAt = time.Now().
MockUpdateGradeStamp(g) ==
    /\ threads[g].at = "fields"
    /\ threads[g].k > Len(FieldOrder)
    /\ mockGrades' = {IF r.GradeID = threads[g].req.GradeID
                       THEN [r EXCEPT !.UpdatedAt = threads[g].t]
                       ELSE r : r \in mockGrades}
    /\ threads' = [threads EXCEPT ![g].at = "Unlock",
                     ![g].grades = {r \in mockGrades' :
                                       r.GradeID = threads[g].req.GradeID}]
    /\ UNCHANGED <<rows, now, uuids, Claims, call, issued, mutex>>

\* MockDatabase.RemoveGrade on goroutine g, under the lock.
MockRemoveGradeDelete(g) ==
    /\ threads[g].at = "locked"
    /\ threads[g].op = "RemoveGrade"
    /\ LET res == MockRemoveGrade(mockGrades, threads[g].req)
       IN /\ mockGrades' = res.map
          /\ threads' = [threads EXCEPT ![g].at = "Unlock", ![g].err = res.err]
    /\ UNCHANGED <<rows, now, uuids, Claims, call, issued, mutex>>

\* The deferred m.mutex.Unlock() on goroutine g, and the return.
MockUnlock(g) ==
    /\ threads[g].at = "Unlock"
    /\ mutex' = [mutex EXCEPT !.writer = NoGoroutine]
    /\ threads' = [threads EXCEPT ![g] = NoThread]
    /\ UNCHANGED <<rows, now, uuids, Claims, call, issued, mockGrades>>

\* m.mutex.RLock() returns on goroutine g, the first statement of a retrieval.
MockRLock(g, op, req) ==
    /\ CanRLock(mutex)
    /\ mutex' = [mutex EXCEPT !.readers = @ \cup {g}]
    /\ threads' = [threads EXCEPT ![g] =
                      MockThread("rlocked", op, req, NoErr, mockGrades)]
    /\ UNCHANGED <<rows, now, uuids, Claims, call, issued, mockGrades>>

\* MockDatabase.GetCourseGrades on goroutine g, up to m.mutex.RLock().
MockGetCourseGradesRLock(g) ==
    /\ threads[g].at = "idle"
    /\ \E courseID \in GoCourseIDs, semester \in GoSemesters :
            MockRLock(g, "GetCourseGrades", <<courseID, semester>>)

\* MockDatabase.GetStudentCourseGrades on goroutine g, up to m.mutex.RLock().
MockGetStudentCourseGradesRLock(g) ==
    /\ threads[g].at = "idle"
    /\ \E courseID \in GoCourseIDs, semester \in GoSemesters,
          studentID \in MockStudentIDs :
            MockRLock(g, "GetStudentCourseGrades", <<courseID, semester, studentID>>)

\* MockDatabase.GetStudentSemesterGrades on goroutine g, up to
\* m.mutex.RLock().
MockGetStudentSemesterGradesRLock(g) ==
    /\ threads[g].at = "idle"
    /\ \E studentID \in MockStudentIDs, semester \in GoSemesters :
            MockRLock(g, "GetStudentSemesterGrades", <<studentID, semester>>)

\* What the retrieval `op` with arguments req returns on the map m.
MockRetrieve(m, op, req) ==
    IF op = "GetCourseGrades"
    THEN MockGetCourseGrades(m, req[1], req[2])
    ELSE IF op = "GetStudentCourseGrades"
    THEN MockGetStudentCourseGrades(m, req[1], req[2], req[3])
    ELSE MockGetStudentSemesterGrades(m, req[1], req[2])

\* The loop of a retrieval on goroutine g, under the read lock.
MockScan(g) ==
    /\ threads[g].at = "rlocked"
    /\ threads' = [threads EXCEPT ![g].at = "RUnlock",
                     ![g].grades = MockRetrieve(mockGrades, threads[g].op,
                                                threads[g].req).grades]
    /\ UNCHANGED <<rows, now, uuids, Claims, call, issued, mockGrades, mutex>>

\* The deferred m.mutex.RUnlock() on goroutine g, and the return.
MockRUnlock(g) ==
    /\ threads[g].at = "RUnlock"
    /\ mutex' = [mutex EXCEPT !.readers = @ \ {g}]
    /\ threads' = [threads EXCEPT ![g] = NoThread]
    /\ UNCHANGED <<rows, now, uuids, Claims, call, issued, mockGrades>>

\* A call that failed its checks returns on goroutine g.
MockReturn(g) ==
    /\ threads[g].at = "return"
    /\ threads' = [threads EXCEPT ![g] = NoThread]
    /\ UNCHANGED <<rows, now, uuids, Claims, call, issued, mockGrades, mutex>>

MockNext ==
    \/ \E g \in Goroutines : MockAddGradeCheckArgs(g)
    \/ \E g \in Goroutines : MockUpdateGradeCheckArgs(g)
    \/ \E g \in Goroutines : MockRemoveGradeCheckArgs(g)
    \/ \E g \in Goroutines : MockLock(g)
    \/ \E g \in Goroutines : MockAddGradeStore(g)
    \/ \E g \in Goroutines : MockUpdateGradeLookup(g)
    \/ \E g \in Goroutines : MockUpdateGradeField(g)
    \/ \E g \in Goroutines : MockUpdateGradeStamp(g)
    \/ \E g \in Goroutines : MockRemoveGradeDelete(g)
    \/ \E g \in Goroutines : MockUnlock(g)
    \/ \E g \in Goroutines : MockGetCourseGradesRLock(g)
    \/ \E g \in Goroutines : MockGetStudentCourseGradesRLock(g)
    \/ \E g \in Goroutines : MockGetStudentSemesterGradesRLock(g)
    \/ \E g \in Goroutines : MockScan(g)
    \/ \E g \in Goroutines : MockRUnlock(g)
    \/ \E g \in Goroutines : MockReturn(g)

MockSpec == Init /\ [][MockNext]_vars

\* What the writing call th does to the map it found when it took the lock,
\* run as one step.
MockExpected(th) ==
    IF th.op = "AddGrade"
    THEN MockAddGrade(th.before, th.req, th.t, th.u, th.n)
    ELSE IF th.op = "UpdateGrade"
    THEN [map |-> MockUpdateGrade(th.before, th.req, th.t).map,
          err |-> MockUpdateGrade(th.before, th.req, th.t).err]
    ELSE MockRemoveGrade(th.before, th.req)

\* The record r is in the middle of an update: a call is between the first
\* assignment of its update and its deferred Unlock, and r is no longer what
\* that call found.
Torn(r) ==
    \E h \in Goroutines :
        /\ threads[h].at = "fields"
        /\ r.GradeID = threads[h].req.GradeID
        /\ r \notin threads[h].before

\* C30: the calls of MockDatabase take effect one at a time, in the order in
\* which they take the mutex.  When a writing call is about to unlock, the
\* map is what that call alone makes of the map it found when it locked, so
\* no other call has written in between and a record it inserted is there;
\* while a retrieval holds the read lock the map is as the retrieval found
\* it, what it returns is what it returns on that map, and no record in the
\* map is in the middle of an update.
C30_MockLinearizable ==
    \A g \in Goroutines :
        /\ threads[g].at = "Unlock"
              => /\ mockGrades = MockExpected(threads[g]).map
                 /\ threads[g].err = MockExpected(threads[g]).err
                 /\ (threads[g].op = "AddGrade" => threads[g].grades \subseteq mockGrades)
        /\ threads[g].at \in {"locked", "fields", "Unlock"} => mutex.writer = g
        /\ threads[g].at \in {"rlocked", "RUnlock"}
              => /\ mockGrades = threads[g].before
                 /\ \A r \in mockGrades : ~Torn(r)
        /\ threads[g].at = "RUnlock"
              => threads[g].grades =
                    MockRetrieve(threads[g].before, threads[g].op,
                                 threads[g].req).grades

\* C30 witness: an update has assigned only part of its fields to a stored
\* record, while another writing call waits for the lock.
C30_Witness ==
    \E g, h \in Goroutines :
        /\ threads[g].at = "fields"
        /\ threads[g].k <= Len(FieldOrder)
        /\ \E r \in mockGrades : Torn(r)
        /\ threads[h].at = "Lock"

====
